---------------------------- MODULE Spec2Model ----------------------------
(***************************************************************************)
(* Model of pyheos/source.py: HeosSource, the browsable node of a HEOS     *)
(* device's content tree, with its lazily built, name-keyed child index.   *)
(*                                                                         *)
(* Coroutines run on one asyncio loop: a task runs without interruption    *)
(* from one await of the commands port to the next.  An action is one such *)
(* run: a caller starts an operation (Call...), or the port answers the    *)
(* call a task awaits (PortBrowse, PortBrowseContainer) or fails it        *)
(* (PortFail), and the task runs on to its next port call or to its end.   *)
(***************************************************************************)
EXTENDS Integers, Sequences, FiniteSets, TLC

(***************************************************************************)
(* Bounds of the model.                                                    *)
(***************************************************************************)
MaxOps == 2          \* operations the first caller makes, one after the other
MaxStart == 1        \* largest `start` a caller passes to browse_container

Tasks == {"t1", "t2"}

(***************************************************************************)
(* Python values.  None is NULL for string-valued fields; a value that may *)
(* be a str or an int (data["sid"]) carries its type.                      *)
(***************************************************************************)
NULL == "None"
PyNone == [t |-> "none", s |-> "", n |-> 0]
PyStr(x) == [t |-> "str", s |-> x, n |-> 0]
PyIntV(k) == [t |-> "int", s |-> "", n |-> k]

\* bool(v): None, "" and 0 are false
Truthy(v) ==
    CASE v.t = "none" -> FALSE
      [] v.t = "str" -> v.s # ""
      [] v.t = "int" -> v.n # 0

\* the decimal strings the device sends as source ids
DecimalOf(s) ==
    CASE s = "0" -> 0
      [] s = "5" -> 5

\* int(v) for an int or a decimal str
PyInt(v) == IF v.t = "int" THEN v ELSE PyIntV(DecimalOf(v.s))

\* a == b as a Python bool
PyTrue == "True"
PyFalse == "False"
PyBool(b) == IF b THEN PyTrue ELSE PyFalse

\* `if x:` on a field holding True, False or None
IsTrue(x) == x = PyTrue

\* str.lower() on the names in use
Lower(s) ==
    CASE s = "Rock" -> "rock"
      [] s = "ROCK" -> "rock"
      [] s = "rock" -> "rock"
      [] s = "Jazz" -> "jazz"
      [] s = "jazz" -> "jazz"
      [] s = "Pop" -> "pop"
      [] s = "Albums" -> "albums"
      [] s = "Artists" -> "artists"
      [] s = "Blues" -> "blues"
      [] s = "Music" -> "music"
      [] s = "Local" -> "local"
      [] s = "Radio" -> "radio"

(***************************************************************************)
(* Raw item records of the commands port, and the content the device       *)
(* serves: for each (sid, cid) the list of items under it.                 *)
(***************************************************************************)
Item(name, sid, container, cid, available, playable) ==
    [name |-> name, sid |-> sid, container |-> container, cid |-> cid,
     available |-> available, playable |-> playable]

Leaf(name) == Item(name, PyNone, "no", NULL, "true", "yes")
Folder(name, cid) == Item(name, PyNone, "yes", cid, "true", "no")

Shelf(sid, cid, items) == [sid |-> sid, cid |-> cid, items |-> items]

ContentA ==
    { Shelf(5, "c0", << Folder("Albums", "c1"), Folder("Artists", "c2") >>),
      Shelf(5, "c1", << Folder("Jazz", "c2") >>),
      Shelf(5, "c2", << >>),
      Shelf(5, NULL, << Leaf("Rock"), Folder("Albums", "c1") >>),
      Shelf(0, NULL, << Folder("Albums", "c1") >>),
      Shelf(0, "c1", << Leaf("Jazz") >>) }

ContentB ==
    { Shelf(5, "c0", << Leaf("Rock"),
                        Item("ROCK", PyStr("5"), NULL, NULL, "True", "YES"),
                        Leaf("Pop") >>),
      Shelf(0, NULL, << >>) }

Contents == {ContentA, ContentB}

RootRecords ==
    { Item("Music", PyStr("5"), "yes", "c0", "true", "no"),
      Item("Radio", PyStr("5"), "no", NULL, "false", NULL),
      Item("Local", PyStr("0"), NULL, NULL, NULL, "yes") }

\* what the device holds under (sid, cid); sid = -1 stands for None
ItemsAt(content, sid, cid) ==
    IF \E e \in content : e.sid = sid /\ e.cid = cid
    THEN (CHOOSE e \in content : e.sid = sid /\ e.cid = cid).items
    ELSE << >>

SidKey(source_id) == IF source_id.t = "int" THEN source_id.n ELSE -1

(***************************************************************************)
(* HeosSource objects.                                                     *)
(***************************************************************************)
NoDict == 0
NoNode == 0

\* HeosSource.__init__ before _from_data: every field None
BlankSource ==
    [name |-> NULL, source_id |-> PyNone, available |-> NULL,
     container |-> NULL, container_id |-> NULL, playable |-> NULL,
     index |-> NoDict,
     \* history: the parent object, the record as served, the ids the device
     \* knows the item by
     parent |-> NoNode, raw |-> Leaf(NULL), dev_sid |-> -1, dev_cid |-> NULL]


\* dict.get(key) is None
IsNone(v) == v.t = "none"

\* HeosSource._inherit_ids: the record with the parent's ids filled in
InheritIds(self, data) ==
    LET d1 == IF ~IsNone(self.source_id) /\ IsNone(data.sid)
              THEN [data EXCEPT !.sid = self.source_id]
              ELSE data
    IN  IF self.container_id # NULL /\ d1.cid = NULL
        THEN [d1 EXCEPT !.cid = self.container_id]
        ELSE d1

\* the `if source_id:` test of _from_data
HasSourceId(source_id) == Truthy(source_id)

\* bool(data.get(key)): any non-empty string counts as true
DecodeTruthy(v, literal) == PyBool(v # NULL /\ v # "")

\* `data.get(key) == literal`, the field absent (NULL) included
Decode(v, literal) == PyBool(v = literal)

\* HeosSource._from_data
FromData(node, data) ==
    [node EXCEPT
       !.name = data.name,
       !.source_id = IF HasSourceId(data.sid) THEN PyInt(data.sid) ELSE @,
       !.available = Decode(data.available, "true"),
       !.container = Decode(data.container, "yes"),
       !.container_id = data.cid,
       !.playable = Decode(data.playable, "yes")]

\* HeosSource(commands, data) for a root built from a record
RootSource(data) ==
    [FromData(BlankSource, data) EXCEPT
       !.raw = data,
       !.dev_sid = IF IsNone(data.sid) THEN -1 ELSE PyInt(data.sid).n,
       !.dev_cid = data.cid]

\* the body of the `for item in items` loop of browse / browse_container:
\* the child built from one served record, by parent object p of the heap h
ChildSource(h, p, item) ==
    [FromData(BlankSource, InheritIds(h[p], item)) EXCEPT
       !.parent = p,
       !.raw = item,
       !.dev_sid = IF IsNone(item.sid) THEN h[p].dev_sid ELSE PyInt(item.sid).n,
       !.dev_cid = IF item.cid = NULL THEN h[p].dev_cid ELSE item.cid]

RECURSIVE Reverse(_)
Reverse(seq) == IF seq = << >> THEN << >> ELSE Append(Reverse(Tail(seq)), Head(seq))

\* the children wrapped last item first
WithChildrenReversed(h, p, items) ==
    h \o [j \in 1..Len(items) |-> ChildSource(h, p, Reverse(items)[j])]

\* sources = [...] of browse / browse_container: the heap with one new object
\* per item, in response order
RECURSIVE WithChildren(_, _, _)
WithChildren(h, p, items) ==
    IF items = << >> THEN h
    ELSE WithChildren(Append(h, ChildSource(h, p, Head(items))), p, Tail(items))

(***************************************************************************)
(* dict objects: insertion-ordered lists of (key, value).                  *)
(***************************************************************************)
HasKey(d, k) == \E j \in 1..Len(d) : d[j].k = k

\* d.setdefault(k, v): the first value of a key stays
DictSetDefault(d, k, v) ==
    IF HasKey(d, k) THEN d ELSE Append(d, [k |-> k, v |-> v])

\* d[k] = v
DictSet(d, k, v) ==
    IF HasKey(d, k)
    THEN [j \in 1..Len(d) |-> IF d[j].k = k THEN [k |-> k, v |-> v] ELSE d[j]]
    ELSE Append(d, [k |-> k, v |-> v])

\* d.get(k), NoNode for None
DictGet(d, k) ==
    IF HasKey(d, k) THEN (CHOOSE e \in {d[j] : j \in 1..Len(d)} : e.k = k).v
    ELSE NoNode

Keys(d) == {d[j].k : j \in 1..Len(d)}
Values(d) == {d[j].v : j \in 1..Len(d)}

\* `for src in child_sources: self._index[src.name.lower()] = src` on dict d,
\* for the objects ids of heap h
RECURSIVE InsertAll(_, _, _)
InsertAll(d, h, ids) ==
    IF ids = << >> THEN d
    ELSE InsertAll(DictSet(d, Lower(h[Head(ids)].name), Head(ids)), h, Tail(ids))

(***************************************************************************)
(* State.                                                                  *)
(***************************************************************************)
\* const.INDEX_CHUNK_SIZE, the page size of _build_index
INDEX_CHUNK_SIZE == 2

VARIABLES
    heap,      \* the HeosSource objects, by object id; object 1 is the root
    dicts,     \* the dict objects, by dict id
    library,   \* the content the device serves now
    stack,     \* per task: the coroutine frames, innermost last
    pend,      \* per task: the port call it awaits
    ret,       \* per task: the value the last finished callee returned
    result,    \* per task: how its last operation ended
    log,       \* per task: port calls and answers of its current operation
    opinfo,    \* per task: history of its current operation
    bld,       \* per task: history of the one-level build it is in
    built,     \* per task: history of the builds its operation completed
    indexed,   \* the object of the last index_all() that returned, no other
               \* operation having run beside it, no index_all() started since
    ops,       \* operations the first caller has started
    answered   \* per task: whether the port has answered its current
               \* operation an odd number of times

vars == << heap, dicts, library, stack, pend, ret, result, log, opinfo, bld,
           built, indexed, ops, answered >>

NoCall == [kind |-> "none", self |-> NoNode, sid |-> -1, cid |-> NULL,
           start |-> 0, end |-> 0]
NoRet == [n |-> 0, seq |-> << >>, node |-> NoNode]
NoResult == [kind |-> "none", err |-> "", n |-> 0, seq |-> << >>, node |-> NoNode]
NoOp == [fn |-> "none", self |-> NoNode, name |-> "", start |-> 0, end |-> 0,
         content |-> {}, idx0 |-> NoDict, dict0 |-> << >>, kept |-> TRUE,
         alone |-> TRUE, beside |-> FALSE, covAll |-> FALSE,
         covCont |-> FALSE]
NoBuild == [state |-> "idle", self |-> NoNode, made |-> << >>, pages |-> << >>,
            nBrowse |-> 0, nBrowseContainer |-> 0, solo |-> TRUE,
            rivalFailed |-> FALSE, last |-> TRUE, had |-> FALSE,
            old |-> << >>, snap |-> << >>]

Frame(fn, self) ==
    [fn |-> fn, self |-> self, pc |-> "init", n |-> 0, d |-> NoDict, i |-> 0,
     used |-> 0, name |-> "", start |-> 0, end |-> 0]

Init ==
    /\ heap \in {<< RootSource(r) >> : r \in RootRecords} \cup {<< BlankSource >>}
    /\ dicts = << >>
    /\ library \in Contents
    /\ stack = [t \in Tasks |-> << >>]
    /\ pend = [t \in Tasks |-> NoCall]
    /\ ret = [t \in Tasks |-> NoRet]
    /\ result = [t \in Tasks |-> NoResult]
    /\ log = [t \in Tasks |-> << >>]
    /\ opinfo = [t \in Tasks |-> NoOp]
    /\ bld = [t \in Tasks |-> NoBuild]
    /\ built = [t \in Tasks |-> << >>]
    /\ indexed = NoNode
    /\ ops = 0
    /\ answered = [t \in Tasks |-> FALSE]

Objects == 1..Len(heap)
Idle(t) == stack[t] = << >>

\* the objects cached below those of `set`: the values of the caches of the
\* objects collected so far; `onlyContainers` keeps the containers among them
RECURSIVE Cached(_, _)
Cached(set, onlyContainers) ==
    LET more == {c \in Objects :
                   /\ \E m \in set : /\ heap[m].index # NoDict
                                     /\ c \in Values(dicts[heap[m].index])
                   /\ onlyContainers => IsTrue(heap[c].container)}
    IN  IF more \subseteq set THEN set ELSE Cached(set \cup more, onlyContainers)

(***************************************************************************)
(* One task's view of the interpreter while it runs: M holds the heap, the *)
(* dicts, the task's own stack, return register, awaited call, result and  *)
(* log, and the build histories.                                           *)
(***************************************************************************)
Machine(t) ==
    [heap |-> heap, dicts |-> dicts, stack |-> stack[t], ret |-> ret[t],
     pend |-> pend[t], result |-> result[t], log |-> log[t], bld |-> bld,
     built |-> built[t]]

\* the task runs: it has frames and awaits nothing
Active(M) == M.stack # << >> /\ M.pend.kind = "none"

TopOf(M) == M.stack[Len(M.stack)]
Callers(M) == SubSeq(M.stack, 1, Len(M.stack) - 1)
SetTop(M, f) == [M EXCEPT !.stack = Append(Callers(M), f)]
Call(M, f, callee) == [M EXCEPT !.stack = Append(Append(Callers(M), f), callee)]

Event(ev, self, start, end, size) ==
    [ev |-> ev, self |-> self, start |-> start, end |-> end, size |-> size]

\* `return val` of the innermost frame: to the awaiting caller, or to whoever
\* started the operation
Return(M, val) ==
    IF Len(M.stack) = 1
    THEN [M EXCEPT !.stack = << >>,
                   !.result = [kind |-> "value", err |-> "", n |-> val.n,
                               seq |-> val.seq, node |-> val.node]]
    ELSE [M EXCEPT !.stack = Callers(M), !.ret = val]

\* the caller of the failed browse catching the exception
UnwindOne(frames) == SubSeq(frames, 1, Len(frames) - 1)

\* the frames left on the stack once an exception has passed through them:
\* no frame of HeosSource catches anything
Unwind(frames) == << >>

\* an exception raised in, or delivered to, the innermost frame of task t
Raise(t, M, err) ==
    [M EXCEPT
       !.stack = Unwind(M.stack),
       !.pend = NoCall,
       !.result = IF Unwind(M.stack) = << >>
                  THEN [NoResult EXCEPT !.kind = "error", !.err = err] ELSE @,
       !.bld = [u \in Tasks |->
           IF u = t
           THEN IF M.bld[t].state = "active"
                THEN [M.bld[t] EXCEPT !.state = "failed"] ELSE M.bld[t]
           ELSE IF /\ M.bld[t].state = "active" /\ M.bld[u].state = "active"
                   /\ M.bld[u].self = M.bld[t].self
                THEN [M.bld[u] EXCEPT !.rivalFailed = TRUE] ELSE M.bld[u]]]

(***************************************************************************)
(* browse() and browse_container(start, end).                              *)
(***************************************************************************)
\* browse() without its check
BrowseNeverRefused(self) == FALSE

\* `if self._container: raise RuntimeError("Use browse_container instead")`
BrowseRefused(self) == IsTrue(self.container)

\* `if not self._container: raise RuntimeError("Use browse instead")`
BrowseContainerRefused(self) == ~IsTrue(self.container)

Counted(b, kind) ==
    IF b.state # "active" THEN b
    ELSE IF kind = "browse" THEN [b EXCEPT !.nBrowse = @ + 1]
    ELSE [b EXCEPT !.nBrowseContainer = @ + 1]

\* browse() up to its await of commands.browse(source_id)
Browse(t, M) ==
    LET f == TopOf(M)
        self == M.heap[f.self]
    IN  IF BrowseRefused(self) THEN Raise(t, M, "InvalidOperation")
        ELSE [SetTop(M, [f EXCEPT !.pc = "await"]) EXCEPT
                !.pend = [kind |-> "browse", self |-> f.self,
                          sid |-> SidKey(self.source_id), cid |-> NULL,
                          start |-> 0, end |-> 0],
                !.log = Append(@, Event("browse", f.self, 0, 0, 0)),
                !.bld[t] = Counted(@, "browse")]

\* browse_container(start, end) up to its await of commands.browse_container
BrowseContainer(t, M) ==
    LET f == TopOf(M)
        self == M.heap[f.self]
    IN  IF BrowseContainerRefused(self) THEN Raise(t, M, "InvalidOperation")
        ELSE [SetTop(M, [f EXCEPT !.pc = "await"]) EXCEPT
                !.pend = [kind |-> "browseContainer", self |-> f.self,
                          sid |-> SidKey(self.source_id),
                          cid |-> self.container_id,
                          start |-> f.start, end |-> f.end],
                !.log = Append(@, Event("browseContainer", f.self, f.start, f.end, 0)),
                !.bld[t] = Counted(@, "browseContainer")]

\* the rest of browse() / browse_container(): wrap the served items, in the
\* order served, and return them
Wrapped(t, M, items) ==
    LET ids == [j \in 1..Len(items) |-> Len(M.heap) + j]
    IN  Return([M EXCEPT
                  !.heap = WithChildren(M.heap, M.pend.self, items),
                  !.pend = NoCall,
                  !.log = Append(@, Event("items", M.pend.self, 0, 0, Len(items))),
                  !.bld[t] = IF @.state = "active"
                             THEN [@ EXCEPT !.made = @ \o ids,
                                            !.pages = Append(@, Len(items))]
                             ELSE @],
               [NoRet EXCEPT !.seq = ids])

(***************************************************************************)
(* _build_index().                                                         *)
(***************************************************************************)
\* a build that goes on filling the old index
KeepIndex(old) == old

\* `self._index = {}`: what the new dict holds, given what the old one held
NewIndex(old) == << >>

\* a loop that no page ends
NeverLast(child_sources) == FALSE

\* the loop ending on a page shorter than the chunk
ShortPage(child_sources) == Len(child_sources) < INDEX_CHUNK_SIZE

\* `if len(child_sources) == 0: break`
LastPage(child_sources) == Len(child_sources) = 0

\* an offset that advances by the size of the window asked for
NextOffsetByChunk(child_count, child_sources) == child_count + INDEX_CHUNK_SIZE

\* `child_count += 1` for each child of the page
NextOffset(child_count, child_sources) == child_count + Len(child_sources)

\* `self._index = {}` and the choice of the branch
BuildIndexInit(t, M) ==
    LET f == TopOf(M)
        self == M.heap[f.self]
        old == IF self.index = NoDict THEN << >> ELSE M.dicts[self.index]
    IN  [SetTop(M, [f EXCEPT
                !.pc = IF IsTrue(self.container) THEN "page" ELSE "flat",
                !.n = 0]) EXCEPT
           !.dicts = Append(@, NewIndex(old)),
           !.heap[f.self].index = Len(M.dicts) + 1,
           !.bld = [u \in Tasks |->
               IF u = t
               THEN [NoBuild EXCEPT
                       !.state = "active", !.self = f.self, !.old = old,
                       !.had = self.index # NoDict,
                       !.solo = \A v \in Tasks \ {t} :
                           ~(M.bld[v].state = "active" /\ M.bld[v].self = f.self)]
               ELSE IF M.bld[u].state = "active" /\ M.bld[u].self = f.self
                    THEN [M.bld[u] EXCEPT !.solo = FALSE] ELSE M.bld[u]]]

\* `await self.browse_container(child_count, child_count + INDEX_CHUNK_SIZE)`
BuildIndexPage(t, M) ==
    LET f == TopOf(M)
    IN  Call(M, [f EXCEPT !.pc = "page_ret"],
             [Frame("browse_container", f.self) EXCEPT
                !.start = f.n, !.end = f.n + INDEX_CHUNK_SIZE])

\* _build_index() returns: the build is history, with the cache as it is now
BuildIndexDone(t, M) ==
    LET b == M.bld[t]
        done == [b EXCEPT
                   !.state = "done",
                   !.snap = M.dicts[M.heap[b.self].index],
                   !.last = \A v \in Tasks \ {t} :
                       ~(M.bld[v].state = "active" /\ M.bld[v].self = b.self)]
    IN  Return([M EXCEPT !.bld[t] = NoBuild, !.built = Append(@, done)], NoRet)

\* the page is back: break on an empty one, else insert it and loop
BuildIndexPageRet(t, M) ==
    LET f == TopOf(M)
        child_sources == M.ret.seq
    IN  IF LastPage(child_sources) THEN BuildIndexDone(t, M)
        ELSE [SetTop(M, [f EXCEPT !.pc = "page",
                                  !.n = NextOffset(@, child_sources)])
                EXCEPT !.dicts[M.heap[f.self].index] =
                           InsertAll(@, M.heap, child_sources)]

\* `await self.browse()`
BuildIndexFlat(t, M) ==
    Call(M, [TopOf(M) EXCEPT !.pc = "flat_ret"], Frame("browse", TopOf(M).self))

\* the children are back: insert them all and return
BuildIndexFlatRet(t, M) ==
    BuildIndexDone(t, [M EXCEPT !.dicts[M.heap[TopOf(M).self].index] =
                                    InsertAll(@, M.heap, M.ret.seq)])

(***************************************************************************)
(* index_all().                                                            *)
(***************************************************************************)
\* index_all() counting every child as a song
NeverDescends(src) == FALSE

\* `if src.container:` of the loop over the children
Descends(src) == IsTrue(src.container)

\* the child's index_all() left to run once the callers are done
Defer(M, f, callee) == [M EXCEPT !.stack = << callee >> \o Callers(M) \o << f >>]

\* `await src.index_all()`: the caller goes on once the child has returned
AwaitChild(M, f, callee) == Call(M, f, callee)

\* `song_count = 0; await self._build_index()`
IndexAllInit(t, M) ==
    Call(M, [TopOf(M) EXCEPT !.pc = "values", !.n = 0],
         Frame("_build_index", TopOf(M).self))

\* `iter(self._index.values())`: the iterator remembers the dict and its size
IndexAllValues(t, M) ==
    LET f == TopOf(M)
        d == M.heap[f.self].index
    IN  SetTop(M, [f EXCEPT !.pc = "iter", !.d = d, !.i = 0,
                            !.used = Len(M.dicts[d])])

\* one turn of `for src in self._index.values()`, or `return song_count`
IndexAllNext(t, M) ==
    LET f == TopOf(M)
        d == M.dicts[f.d]
    IN  IF Len(d) # f.used THEN Raise(t, M, "DictChangedSize")
        ELSE IF f.i >= Len(d) THEN Return(M, [NoRet EXCEPT !.n = f.n])
        ELSE IF Descends(M.heap[d[f.i + 1].v])
             THEN AwaitChild(M, [f EXCEPT !.i = @ + 1, !.pc = "add"],
                             Frame("index_all", d[f.i + 1].v))
             ELSE SetTop(M, [f EXCEPT !.i = @ + 1, !.n = @ + 1])

\* `song_count += await src.index_all()`, the callee having returned
IndexAllAdd(t, M) ==
    SetTop(M, [TopOf(M) EXCEPT !.pc = "iter", !.n = @ + M.ret.n])

(***************************************************************************)
(* get_child_source(name).                                                 *)
(***************************************************************************)
\* `if not self._index:`, which takes an empty index for a missing one
NeedsBuildIfFalsy(M, x) ==
    \/ M.heap[x].index = NoDict
    \/ M.dicts[M.heap[x].index] = << >>

\* `if self._index is None:`
NeedsBuild(M, x) == M.heap[x].index = NoDict

\* a lookup under the name as the caller wrote it
ExactKey(name) == name

\* `name.lower()`, the key get_child_source() looks up
LookupKey(name) == Lower(name)

GetChildSourceInit(t, M) ==
    LET f == TopOf(M)
    IN  IF NeedsBuild(M, f.self)
        THEN Call(M, [f EXCEPT !.pc = "lookup"], Frame("_build_index", f.self))
        ELSE SetTop(M, [f EXCEPT !.pc = "lookup"])

\* `return self._index.get(name.lower())`
GetChildSourceLookup(t, M) ==
    LET f == TopOf(M)
    IN  Return(M, [NoRet EXCEPT
            !.node = DictGet(M.dicts[M.heap[f.self].index], LookupKey(f.name))])

(***************************************************************************)
(* The event loop runs task t until it awaits the port or its operation    *)
(* ends.                                                                   *)
(***************************************************************************)
Step(t, M) ==
    LET f == TopOf(M)
    IN  CASE f.fn = "browse" -> Browse(t, M)
          [] f.fn = "browse_container" -> BrowseContainer(t, M)
          [] f.fn = "_build_index" /\ f.pc = "init" -> BuildIndexInit(t, M)
          [] f.fn = "_build_index" /\ f.pc = "page" -> BuildIndexPage(t, M)
          [] f.fn = "_build_index" /\ f.pc = "page_ret" -> BuildIndexPageRet(t, M)
          [] f.fn = "_build_index" /\ f.pc = "flat" -> BuildIndexFlat(t, M)
          [] f.fn = "_build_index" /\ f.pc = "flat_ret" -> BuildIndexFlatRet(t, M)
          [] f.fn = "index_all" /\ f.pc = "init" -> IndexAllInit(t, M)
          [] f.fn = "index_all" /\ f.pc = "values" -> IndexAllValues(t, M)
          [] f.fn = "index_all" /\ f.pc = "iter" -> IndexAllNext(t, M)
          [] f.fn = "index_all" /\ f.pc = "add" -> IndexAllAdd(t, M)
          [] f.fn = "get_child_source" /\ f.pc = "init" -> GetChildSourceInit(t, M)
          [] f.fn = "get_child_source" /\ f.pc = "lookup" -> GetChildSourceLookup(t, M)

RECURSIVE Run(_, _)
Run(t, M) == IF Active(M) THEN Run(t, Step(t, M)) ELSE M

\* the state after task t has run to M
Commit(t, M) ==
    /\ heap' = M.heap
    /\ dicts' = M.dicts
    /\ stack' = [stack EXCEPT ![t] = M.stack]
    /\ ret' = [ret EXCEPT ![t] = M.ret]
    /\ pend' = [pend EXCEPT ![t] = M.pend]
    /\ result' = [result EXCEPT ![t] = M.result]
    /\ log' = [log EXCEPT ![t] = M.log]
    /\ bld' = M.bld
    /\ built' = [built EXCEPT ![t] = M.built]

\* index_all() of task t has just returned, nothing having run beside it
JustIndexed(t, M) ==
    /\ opinfo[t].fn = "index_all"
    /\ opinfo[t].alone
    /\ M.stack = << >>
    /\ M.result.kind = "value"
    /\ \A v \in Tasks \ {t} : Idle(v)

(***************************************************************************)
(* A caller starts an operation on an object it holds.  The first caller   *)
(* makes up to MaxOps calls, one after the other; the second caller makes  *)
(* one call, while the first call of the first caller is in flight.        *)
(***************************************************************************)
MayStart(t) ==
    /\ Idle(t)
    /\ opinfo["t2"].fn = "none"
    /\ IF t = "t1" THEN ops < MaxOps ELSE ops = 1 /\ ~Idle("t1")

Started(t, f) ==
    Run(t, [Machine(t) EXCEPT
              !.stack = << f >>, !.ret = NoRet, !.result = NoResult,
              !.log = << >>, !.built = << >>])

Start(t, f) ==
    /\ MayStart(t)
    /\ Commit(t, Started(t, f))
    /\ opinfo' = [u \in Tasks |->
            IF u = t
            THEN [fn |-> f.fn, self |-> f.self, name |-> f.name,
                  start |-> f.start, end |-> f.end,
                  content |-> library,
                  idx0 |-> heap[f.self].index,
                  dict0 |-> IF heap[f.self].index = NoDict THEN << >>
                            ELSE dicts[heap[f.self].index],
                  kept |-> /\ heap'[f.self].index = heap[f.self].index
                           /\ \A d \in 1..Len(dicts) : dicts'[d] = dicts[d],
                  alone |-> \A v \in Tasks \ {t} : Idle(v),
                  beside |-> \E v \in Tasks \ {t} :
                                /\ bld[v].state = "active"
                                /\ bld[v].self = f.self
                                /\ pend[v].kind # "none",
                  covAll |-> /\ indexed # NoNode
                             /\ f.self \in Cached({indexed}, FALSE),
                  covCont |-> /\ indexed # NoNode
                              /\ f.self \in Cached({indexed}, TRUE)]
            ELSE IF Idle(u) THEN opinfo[u]
                 ELSE [opinfo[u] EXCEPT !.alone = FALSE]]
    /\ indexed' = IF f.fn = "index_all" THEN NoNode ELSE indexed
    /\ ops' = IF t = "t1" THEN ops + 1 ELSE ops
    /\ answered' = [answered EXCEPT ![t] = FALSE]
    /\ UNCHANGED library

CallBrowse(t, x) == Start(t, Frame("browse", x))

CallBrowseContainer(t, x, start) ==
    Start(t, [Frame("browse_container", x) EXCEPT
                !.start = start, !.end = start + INDEX_CHUNK_SIZE])

CallIndexAll(t, x) == Start(t, Frame("index_all", x))

CallGetChildSource(t, x, name) ==
    Start(t, [Frame("get_child_source", x) EXCEPT !.name = name])

(***************************************************************************)
(* The commands port.                                                      *)
(***************************************************************************)
Resume(t, M) ==
    /\ LET R == Run(t, M)
       IN  /\ Commit(t, R)
           /\ indexed' = IF JustIndexed(t, R) THEN opinfo[t].self ELSE indexed
           /\ opinfo' = [opinfo EXCEPT ![t].kept =
                  /\ @
                  /\ R.heap[opinfo[t].self].index = heap[opinfo[t].self].index
                  /\ \A d \in 1..Len(dicts) : R.dicts[d] = dicts[d]]
    /\ answered' = [answered EXCEPT ![t] = ~@]
    /\ UNCHANGED << library, ops >>

\* the port answers browse(sid): everything listed under the source
PortBrowse(t) ==
    /\ pend[t].kind = "browse"
    /\ Resume(t, Wrapped(t, Machine(t), ItemsAt(library, pend[t].sid, NULL)))

Min(a, b) == IF a < b THEN a ELSE b

\* the sizes of the page the device may serve for [start, end] out of n
\* items: nothing past the end; else a run of at least one item, at most
\* the window with both ends counted
PageSizes(n, start, end) ==
    IF start >= n THEN {0} ELSE 1..Min(n - start, end - start + 1)

\* the port answers browse_container(sid, cid, start, end) with one page
PortBrowseContainer(t) ==
    /\ pend[t].kind = "browseContainer"
    /\ LET all == ItemsAt(library, pend[t].sid, pend[t].cid)
       IN  \E k \in PageSizes(Len(all), pend[t].start, pend[t].end) :
              Resume(t, Wrapped(t, Machine(t),
                                SubSeq(all, pend[t].start + 1, pend[t].start + k)))

\* the port call fails: the exception is raised at the await
PortFail(t) ==
    /\ pend[t].kind # "none"
    /\ Resume(t, Raise(t, [Machine(t) EXCEPT
           !.log = Append(@, Event("fail", pend[t].self, 0, 0, 0))],
           "TransportFailure"))

\* the device's content changes between two calls of the first caller
ServerUpdate ==
    /\ \A t \in Tasks : Idle(t)
    /\ opinfo["t2"].fn = "none"
    /\ 0 < ops /\ ops < MaxOps
    /\ \E c \in Contents \ {library} : library' = c
    /\ UNCHANGED << heap, dicts, stack, pend, ret, result, log, opinfo, bld,
                    built, indexed, ops, answered >>

LookupNames == {"ROCK", "jazz", "Blues"}

Next ==
    \/ \E t \in Tasks : \E x \in Objects : CallBrowse(t, x)
    \/ \E t \in Tasks : \E x \in Objects : \E start \in 0..MaxStart :
          CallBrowseContainer(t, x, start)
    \/ \E t \in Tasks : \E x \in Objects : CallIndexAll(t, x)
    \/ \E t \in Tasks : \E x \in Objects : \E name \in LookupNames :
          CallGetChildSource(t, x, name)
    \/ \E t \in Tasks : PortBrowse(t)
    \/ \E t \in Tasks : PortBrowseContainer(t)
    \/ \E t \in Tasks : PortFail(t)
    \/ ServerUpdate

Spec == Init /\ [][Next]_vars

\* a step in which the call task t awaits is answered, with items or with
\* a failure
Answer(t) ==
    /\ pend[t].kind # "none"
    /\ answered' = [answered EXCEPT ![t] = ~@]

\* the commands port answers every call in the end
PortResponds == \A t \in Tasks : WF_answered(Answer(t))

LiveSpec == Spec /\ PortResponds

(***************************************************************************)
(* Properties.                                                             *)
(***************************************************************************)
Range(seq) == {seq[j] : j \in 1..Len(seq)}

RECURSIVE Sum(_)
Sum(seq) == IF seq = << >> THEN 0 ELSE Head(seq) + Sum(Tail(seq))

CountEv(t, ev) == Cardinality({j \in 1..Len(log[t]) : log[t][j].ev = ev})

Succeeded(t) == Idle(t) /\ result[t].kind = "value"
Failed(t, err) == Idle(t) /\ result[t].kind = "error" /\ result[t].err = err

\* the completed builds of the current operations
Builds == UNION {Range(built[t]) : t \in Tasks}

LowerNames(ids) == {Lower(heap[ids[j]].name) : j \in 1..Len(ids)}
DistinctNames(ids) == Cardinality(LowerNames(ids)) = Len(ids)

\* C1: browse() on a container and browse_container() on a non-container
\* end with the invalid-operation error before any port call is issued; a
\* browse() that returns has issued one port browse call and no
\* browseContainer call, a browse_container() that returns one
\* browseContainer call and no browse call.
C1_WrongBrowseFailsFast ==
    \A t \in Tasks :
       LET o == opinfo[t]
       IN  /\ o.fn = "browse" /\ heap[o.self].container = PyTrue
                => Failed(t, "InvalidOperation") /\ log[t] = << >>
           /\ o.fn = "browse_container" /\ heap[o.self].container = PyFalse
                => Failed(t, "InvalidOperation") /\ log[t] = << >>
           /\ o.fn = "browse" /\ Succeeded(t)
                => CountEv(t, "browse") = 1 /\ CountEv(t, "browseContainer") = 0
           /\ o.fn = "browse_container" /\ Succeeded(t)
                => CountEv(t, "browseContainer") = 1 /\ CountEv(t, "browse") = 0

C1_Witness ==
    /\ opinfo["t1"].fn = "browse"
    /\ Succeeded("t1")
    /\ result["t1"].seq # << >>
    /\ opinfo["t2"].fn = "browse_container"
    /\ heap[opinfo["t2"].self].container = PyFalse
    /\ Failed("t2", "InvalidOperation")

\* C2: a child built from a record without `sid` by a parent that has a
\* source id (0 included) has the parent's source id, and a child built
\* from a record without `cid` by a parent that has a container id has the
\* parent's container id.
C2_ChildInheritsIds ==
    \A c \in Objects :
       heap[c].parent # NoNode =>
          LET p == heap[heap[c].parent]
          IN  /\ ~IsNone(p.source_id) /\ IsNone(heap[c].raw.sid)
                   => heap[c].source_id = p.source_id
              /\ p.container_id # NULL /\ heap[c].raw.cid = NULL
                   => heap[c].container_id = p.container_id

\* C3 as stated: after index_all() has returned, get_child_source() on any
\* object cached in the indexed subtree, the non-container children
\* included, issues no port call.
C3_NoPortCallInIndexedSubtree ==
    \A t \in Tasks :
       opinfo[t].fn = "get_child_source" /\ opinfo[t].covAll => log[t] = << >>

\* C3, amended: after index_all() has returned, get_child_source() on the
\* indexed object or on a container cached below it through containers
\* returns without a port call.
C3_NoPortCallOnIndexedContainers ==
    \A t \in Tasks :
       opinfo[t].fn = "get_child_source" /\ opinfo[t].covCont
          => log[t] = << >> /\ Succeeded(t)

C3_Witness ==
    \E t \in Tasks :
       /\ opinfo[t].fn = "get_child_source"
       /\ opinfo[t].covCont
       /\ heap[opinfo[t].self].parent # NoNode
       /\ Succeeded(t)
       /\ result[t].node # NoNode

\* the songs the device lists below (sid, cid): one per item that is no
\* container, and those below each container
RECURSIVE LeafCount(_, _, _, _)
LeafCount(content, sid, cid, container) ==
    LET items == ItemsAt(content, sid, IF container THEN cid ELSE NULL)
        below(item) ==
            IF item.container = "yes"
            THEN LeafCount(content,
                           IF IsNone(item.sid) THEN sid ELSE PyInt(item.sid).n,
                           IF item.cid = NULL THEN cid ELSE item.cid, TRUE)
            ELSE 1
    IN  Sum([j \in 1..Len(items) |-> below(items[j])])

\* every object carries the source id the device knows it by
IdsFaithful == \A c \in Objects : SidKey(heap[c].source_id) = heap[c].dev_sid

\* C4: index_all() returns the number of non-container items the device
\* lists in the subtree, names equal after lowercasing included (stated
\* for the runs in which no object lost its source id, and nothing ran
\* beside the call).
C4_IndexAllCountsLeaves ==
    \A t \in Tasks :
       LET o == opinfo[t]
       IN  o.fn = "index_all" /\ o.alone /\ Succeeded(t) /\ IdsFaithful
              => result[t].n = LeafCount(o.content, heap[o.self].dev_sid,
                                         heap[o.self].dev_cid,
                                         IsTrue(heap[o.self].container))

\* C5: a build of a container that got k non-empty pages and then an empty
\* one issued k + 1 browseContainer calls and no browse call, stopped at
\* the first empty page, and (names distinct after lowercasing, no other
\* build of the object beside it) left as many children in the cache as the
\* pages held; a build of a non-container issued one browse call and no
\* browseContainer call.
C5_BuildCallsAndSize ==
    \A b \in Builds :
       IF IsTrue(heap[b.self].container)
       THEN /\ b.nBrowseContainer = Len(b.pages)
            /\ b.nBrowse = 0
            /\ b.pages[Len(b.pages)] = 0
            /\ \A j \in 1..(Len(b.pages) - 1) : b.pages[j] > 0
            /\ b.solo /\ DistinctNames(b.made) => Len(b.snap) = Sum(b.pages)
       ELSE /\ b.nBrowse = 1
            /\ b.nBrowseContainer = 0
            /\ Len(b.pages) = 1

C5_Witness ==
    \E b \in Builds :
       /\ IsTrue(heap[b.self].container)
       /\ Len(b.pages) >= 3
       /\ b.solo /\ DistinctNames(b.made)
       /\ Len(b.snap) >= 2

\* C6: get_child_source() issues port calls exactly when the object has no
\* index as the call starts; with an index, the empty one included, it
\* returns without a port call and leaves the index as it was.
C6_BuildOnlyWhenUnindexed ==
    \A t \in Tasks :
       LET o == opinfo[t]
       IN  o.fn = "get_child_source" =>
              /\ (o.idx0 = NoDict) <=> (log[t] # << >>)
              /\ o.idx0 # NoDict => Succeeded(t) /\ o.kept

C6_Witness ==
    \E t \in Tasks :
       /\ opinfo[t].fn = "get_child_source"
       /\ opinfo[t].alone
       /\ opinfo[t].idx0 # NoDict
       /\ opinfo[t].dict0 = << >>
       /\ Succeeded(t)
       /\ log[t] = << >>

\* C7: a port failure during index_all() ends the call with that error,
\* no port call follows the failure, and the caches of the objects whose
\* build had completed in the call are as those builds left them.
C7_FailureAbortsIndexAll ==
    \A t \in Tasks :
       LET o == opinfo[t]
       IN  o.fn = "index_all" /\ CountEv(t, "fail") > 0 =>
              /\ Failed(t, "TransportFailure")
              /\ log[t][Len(log[t])].ev = "fail"
              /\ CountEv(t, "fail") = 1
              /\ o.alone => \A b \in Range(built[t]) :
                                dicts[heap[b.self].index] = b.snap

C7_Witness ==
    \E t \in Tasks :
       /\ opinfo[t].fn = "index_all"
       /\ opinfo[t].alone
       /\ Failed(t, "TransportFailure")
       /\ Len(built[t]) >= 2

\* C8: when builds of one object overlapped and all completed, the cache
\* the last one to finish leaves holds only children that builder made.
C8_LastBuilderOwnsCache ==
    \A b \in Builds :
       ~b.solo /\ b.last /\ ~b.rivalFailed => Values(b.snap) \subseteq Range(b.made)

\* C9: after a build with no other build of the object beside it, the keys
\* of the cache are the lowercased names served during that build,
\* whatever the cache held before.
C9_RebuildReplaces ==
    \A b \in Builds : b.solo => Keys(b.snap) = LowerNames(b.made)

C9_Witness ==
    \E b \in Builds :
       /\ b.solo
       /\ ~(Keys(b.old) \subseteq Keys(b.snap))
       /\ b.snap # << >>

\* C10: when children served during one build share a lowercased name, the
\* cache entry of that name is the one served last, and the build completes.
C10_LastWriteWins ==
    \A b \in Builds :
       b.solo =>
          \A j \in 1..Len(b.snap) :
             LET same == {i \in 1..Len(b.made) :
                            Lower(heap[b.made[i]].name) = b.snap[j].k}
             IN  \E m \in same : /\ b.made[m] = b.snap[j].v
                                  /\ \A i \in same : i <= m

C10_Witness ==
    \E b \in Builds :
       /\ b.solo
       /\ ~DistinctNames(b.made)
       /\ Len(b.pages) >= 3

\* the children an operation's lookup may answer with: those served in the
\* build the lookup made itself (no other build of the object beside it),
\* else those the cache held as the call started
Candidates(t) ==
    IF built[t] # << >> THEN Range(built[t][1].made)
    ELSE Values(opinfo[t].dict0)

\* C11: get_child_source(S), its own build (if it made one) having
\* completed with no other build of the object beside it, returns a cached
\* child whose name equals S up to letter case whenever the cache holds
\* such a child (after the lookup's own build: whenever the device served
\* one), and returns None, raising nothing, when no child's name matches.
C11_LookupIgnoresCase ==
    \A t \in Tasks :
       LET o == opinfo[t]
           same == {c \in Candidates(t) : Lower(heap[c].name) = Lower(o.name)}
       IN  /\ o.fn = "get_child_source" /\ Idle(t)
           /\ o.alone \/ (built[t] # << >> /\ built[t][1].solo)
           /\ result[t].kind # "error"
           => /\ Succeeded(t)
              /\ same = {} <=> result[t].node = NoNode
              /\ same # {} => result[t].node \in same

C11_Witness ==
    /\ opinfo["t1"].fn = "get_child_source"
    /\ opinfo["t1"].name = "ROCK"
    /\ opinfo["t1"].alone
    /\ Succeeded("t1")
    /\ built["t1"] # << >>
    /\ result["t1"].node # NoNode
    /\ heap[result["t1"].node].name = "Rock"

\* the items the device lists where an operation's browse call looks
ListedFor(t) ==
    LET o == opinfo[t]
        self == heap[o.self]
    IN  ItemsAt(o.content, SidKey(self.source_id),
                IF o.fn = "browse" THEN NULL ELSE self.container_id)

\* C12: browse() and browse_container(start, end), however they end and
\* whatever runs beside them, assign no index to the object and change no
\* dict; a call that returns has issued one port call and returns one new
\* object per record served, in the order served (browse(): everything
\* listed under the source; browse_container(): a run beginning at start).
C12_BrowseLeavesIndexAlone ==
    \A t \in Tasks :
       LET o == opinfo[t]
           seq == result[t].seq
       IN  o.fn \in {"browse", "browse_container"} =>
              /\ o.kept
              /\ o.alone => /\ heap[o.self].index = o.idx0
                            /\ o.idx0 # NoDict => dicts[o.idx0] = o.dict0
              /\ Succeeded(t) =>
                    /\ CountEv(t, "browse") + CountEv(t, "browseContainer") = 1
                    /\ o.fn = "browse" => Len(seq) = Len(ListedFor(t))
                    /\ \A j \in 1..Len(seq) :
                          /\ o.start + j <= Len(ListedFor(t))
                          /\ heap[seq[j]].raw = ListedFor(t)[o.start + j]
                          /\ heap[seq[j]].name = ListedFor(t)[o.start + j].name
                          /\ heap[seq[j]].parent = o.self
                          /\ \A i \in 1..(j - 1) : seq[i] # seq[j]

C12_Witness ==
    /\ opinfo["t1"].fn = "browse_container"
    /\ opinfo["t1"].idx0 # NoDict
    /\ opinfo["t1"].dict0 # << >>
    /\ Succeeded("t1")
    /\ Len(result["t1"].seq) >= 2
    /\ heap[result["t1"].seq[1]].raw # heap[result["t1"].seq[2]].raw

\* the port calls in the log of task t, in the order issued
IsCall(e) == e.ev \in {"browse", "browseContainer"}
CallsOf(t) == SelectSeq(log[t], IsCall)

\* x and the objects it was made below
RECURSIVE Above(_)
Above(x) == IF heap[x].parent = NoNode THEN {x} ELSE {x} \cup Above(heap[x].parent)

\* the object has an index, and so has every container cached below it
FullyIndexed(z) == \A c \in Cached({z}, TRUE) : heap[c].index # NoDict

\* C13: within one index_all() the port calls come one at a time, each
\* answered before the next is issued, and depth-first: once a call leaves
\* an object (it is on neither that object nor one below it) no later call
\* comes back to it or below it, and the object left is by then indexed
\* together with the containers below it (no other operation re-indexing
\* them meanwhile).
C13_IndexAllSequentialDepthFirst ==
    \A t \in Tasks :
       opinfo[t].fn = "index_all" =>
          LET calls == CallsOf(t)
              n == Len(log[t])
          IN  /\ \A j \in 1..(n - 1) : IsCall(log[t][j]) <=> ~IsCall(log[t][j + 1])
              /\ n > 0 => IsCall(log[t][1])
              /\ pend[t].kind # "none" <=> (n > 0 /\ IsCall(log[t][n]))
              /\ \A j \in 1..(Len(calls) - 1) :
                    \A c \in Above(calls[j].self) \ Above(calls[j + 1].self) :
                       \A k \in (j + 1)..Len(calls) : c \notin Above(calls[k].self)
              /\ opinfo[t].alone =>
                    \A j \in 1..(Len(calls) - 1) :
                       \A c \in Above(calls[j].self) \ Above(calls[j + 1].self) :
                          FullyIndexed(c)

C13_Witness ==
    \E t \in Tasks :
       /\ opinfo[t].fn = "index_all"
       /\ \E i, j, k \in 1..Len(CallsOf(t)) :
             LET a == CallsOf(t)[i].self
                 a1 == CallsOf(t)[j].self
                 b == CallsOf(t)[k].self
             IN  /\ i < j /\ j < k
                 /\ heap[a].parent = opinfo[t].self
                 /\ heap[a1].parent = a
                 /\ heap[b].parent = opinfo[t].self
                 /\ a # b

\* the objects built from a record
FromRecord == {c \in Objects : heap[c].raw.name # NULL}

\* C14: on an object built from a record, available is True exactly when
\* the record's `available` is "true", container and playable are True
\* exactly when `container` and `playable` are "yes", and each is False,
\* never None, for any other value and for an absent field.
C14_BooleanDecoding ==
    \A c \in FromRecord :
       LET src == heap[c]
       IN  /\ src.available = (IF src.raw.available = "true" THEN PyTrue ELSE PyFalse)
           /\ src.container = (IF src.raw.container = "yes" THEN PyTrue ELSE PyFalse)
           /\ src.playable = (IF src.raw.playable = "yes" THEN PyTrue ELSE PyFalse)

C14_Witness ==
    \E c, r \in FromRecord :
       /\ heap[c].parent # NoNode
       /\ heap[c].raw.available = "True" /\ heap[c].available = PyFalse
       /\ heap[c].raw.container = NULL /\ heap[c].container = PyFalse
       /\ heap[c].raw.playable = "YES" /\ heap[c].playable = PyFalse
       /\ heap[r].raw.available = "true" /\ heap[r].available = PyTrue
       /\ heap[r].raw.container = "yes" /\ heap[r].container = PyTrue

\* the builds of task t's current operation: those completed and the one
\* under way
BuildsOf(t) ==
    Range(built[t]) \cup (IF bld[t].state = "active" THEN {bld[t]} ELSE {})

\* the browseContainer calls task t has issued on object x, in order
PageCalls(t, x) ==
    LET OnX(e) == e.ev = "browseContainer" /\ e.self = x
    IN  SelectSeq(log[t], OnX)

\* C15: in a build of a container the first browseContainer call has
\* start 0, every call has end = start + INDEX_CHUNK_SIZE, and each later
\* call starts at the number of items all earlier calls of the build
\* returned; against a device that serves a non-empty run from `start`
\* while start is below the number it holds, and then an empty page, a
\* completed build has fetched every item the device holds once, in order.
C15_PaginationOffsets ==
    \A t \in Tasks :
       opinfo[t].fn \in {"index_all", "get_child_source"} =>
          \A b \in BuildsOf(t) :
             IsTrue(heap[b.self].container) =>
                LET calls == PageCalls(t, b.self)
                    held == ItemsAt(opinfo[t].content,
                                    SidKey(heap[b.self].source_id),
                                    heap[b.self].container_id)
                IN  /\ \A j \in 1..Len(calls) :
                          /\ calls[j].start = Sum(SubSeq(b.pages, 1, j - 1))
                          /\ calls[j].end = calls[j].start + INDEX_CHUNK_SIZE
                    /\ \A j \in 1..Len(b.made) :
                          /\ j <= Len(held)
                          /\ heap[b.made[j]].raw = held[j]
                    /\ b.state = "done" => Len(b.made) = Len(held)

C15_Witness ==
    \E t, u \in Tasks : \E b \in Range(built[t]) : \E c \in Range(built[u]) :
       /\ opinfo[t].fn = "index_all" /\ opinfo[u].fn = "index_all"
       /\ IsTrue(heap[b.self].container) /\ IsTrue(heap[c.self].container)
       /\ b.pages = << INDEX_CHUNK_SIZE + 1, 0 >>
       /\ c.pages = << 1, 2, 0 >>

\* a build of a container goes on after every non-empty page, a short one
\* included, is complete only after an empty page, and makes no more calls
\* than the object holds items, plus one
BuildEndsOnEmptyPage ==
    \A t \in Tasks :
       opinfo[t].fn \in {"index_all", "get_child_source"} =>
          \A b \in BuildsOf(t) :
             IsTrue(heap[b.self].container) =>
                /\ \A j \in 1..(Len(b.pages) - 1) : b.pages[j] > 0
                /\ b.state = "done" => b.pages # << >> /\ b.pages[Len(b.pages)] = 0
                /\ b.state = "active" /\ b.pages # << >> => b.pages[Len(b.pages)] > 0
                /\ Len(PageCalls(t, b.self)) <=
                      1 + Len(ItemsAt(opinfo[t].content,
                                      SidKey(heap[b.self].source_id),
                                      heap[b.self].container_id))

\* C16: with a commands port that answers every call and a finite tree,
\* every operation that has started comes to its end, and so does the
\* build it makes (the callers start finitely many operations, so from
\* some point on no task runs and no build is under way); the loop of the
\* build ends on an empty page only.
C16_Terminates ==
    /\ []BuildEndsOnEmptyPage
    /\ <>[](\A t \in Tasks : Idle(t) /\ bld[t].state # "active")

C16_Witness ==
    \E t \in Tasks :
       /\ opinfo[t].fn = "index_all"
       /\ Succeeded(t)
       /\ Len(built[t]) >= 4
       /\ \E b \in Range(built[t]) : Len(b.pages) >= 3 /\ b.pages[1] < INDEX_CHUNK_SIZE

\* C17: when the build made by get_child_source() or index_all() has
\* failed with a transport error and nothing is running, the object has no
\* index, or has the cache it had before the build, so that the next
\* get_child_source() builds anew.
C17_FailedBuildLeavesNoIndex ==
    \A t \in Tasks :
       LET b == bld[t]
       IN  /\ opinfo[t].fn \in {"index_all", "get_child_source"}
           /\ opinfo[t].alone
           /\ Failed(t, "TransportFailure")
           /\ b.state = "failed"
           /\ \A u \in Tasks : Idle(u)
           => \/ heap[b.self].index = NoDict
              \/ b.had /\ dicts[heap[b.self].index] = b.old

\* the names, lowercased, of the items the device lists under the object
\* of task t's operation, at the ids the object browses with
ListedNames(t) ==
    LET self == heap[opinfo[t].self]
        held == ItemsAt(opinfo[t].content, SidKey(self.source_id),
                        IF IsTrue(self.container) THEN self.container_id ELSE NULL)
    IN  {Lower(held[j].name) : j \in 1..Len(held)}

\* C18: get_child_source(name) called while another task's build of the
\* same object awaits a port call does not return None for a name the
\* device lists under the object.
C18_LookupNeverSeesHalfBuilt ==
    \A t \in Tasks :
       LET o == opinfo[t]
       IN  /\ o.fn = "get_child_source"
           /\ o.beside
           /\ Succeeded(t)
           /\ Lower(o.name) \in ListedNames(t)
           => result[t].node # NoNode

\* C19: when two index_all() calls on one object have overlapped and no
\* port call has failed, both have returned, raising nothing, and both
\* with the same count, the number of songs the device lists below the
\* object (compared where no object lost its source id and no two
\* siblings share a lowercased name).
C19_ConcurrentIndexAllHarmless ==
    LET o1 == opinfo["t1"]
        o2 == opinfo["t2"]
    IN  /\ o1.fn = "index_all" /\ o2.fn = "index_all"
        /\ o1.self = o2.self
        /\ Idle("t1") /\ Idle("t2")
        /\ CountEv("t1", "fail") = 0 /\ CountEv("t2", "fail") = 0
        => /\ Succeeded("t1") /\ Succeeded("t2")
           /\ result["t1"].n = result["t2"].n
           /\ IdsFaithful /\ (\A b \in Builds : DistinctNames(b.made))
                 => result["t1"].n =
                       LeafCount(o1.content, heap[o1.self].dev_sid,
                                 heap[o1.self].dev_cid,
                                 IsTrue(heap[o1.self].container))

=============================================================================
